---- MODULE Spec2Model ----
(***************************************************************************)
(* Model of the Docy AI documentation backend (src/main.py): the page      *)
(* registry DOC_PAGES, the handlers read_root, list_pages, get_page,       *)
(* ask_ai and test_database, and the request/response cycle around them.   *)
(*                                                                         *)
(* Python strings are modelled as sequences of one-character strings, so   *)
(* that strip, lower, split, substring search, slicing and concatenation   *)
(* are computed rather than assumed.                                       *)
(***************************************************************************)
EXTENDS Integers, Sequences, FiniteSets, TLC

VARIABLES registry, request, response, scanned, matched

vars == <<registry, request, response, scanned, matched>>

(***************************************************************************)
(* Bounds of the model.                                                    *)
(***************************************************************************)
\* longest question drawn from QuestionAlphabet
MaxQLen == 4
\* longest message carried by an error of the database dependency
MaxMsgLen == 51
\* most collections the database handle lists
MaxColl == 11

(***************************************************************************)
(* Program constants.                                                      *)
(***************************************************************************)
\* len(k) > 3
MinTokenLen == 3
\* matches[:3]
MaxSources == 3
\* str(e)[:50]
MaxErrLen == 50
\* collections[:10]
MaxCollections == 10

(***************************************************************************)
(* The page registry, src/main.py lines 26-60.                             *)
(***************************************************************************)

\* slug='getting-started'
Page1Slug ==
    <<"g","e","t","t","i","n","g","-","s","t","a","r","t","e","d">>

\* title='Getting Started'
Page1Title ==
    <<"G","e","t","t","i","n","g"," ","S","t","a","r","t","e","d">>

\* summary='Quick intro to Docy AI Documentation site.'
Page1Summary ==
    <<"Q","u","i","c","k"," ","i","n","t","r","o"," ","t","o"," ","D","o","c","y"," ","A","I",
      " ","D","o","c","u","m","e","n","t","a","t","i","o","n"," ","s","i","t","e",".">>

\* content of page 'getting-started': the adjacent string literals, concatenated
Page1Content ==
    <<"#"," ","G","e","t","t","i","n","g"," ","S","t","a","r","t","e","d","\n","\n","W","e","l",
      "c","o","m","e"," ","t","o"," ","D","o","c","y"," ","A","I"," ","D","o","c","u","m","e",
      "n","t","a","t","i","o","n","."," ","T","h","i","s"," ","s","i","t","e"," ","s","h","o",
      "w","c","a","s","e","s"," ","a"," ","c","l","e","a","n"," ","d","o","c","s"," ","e","x",
      "p","e","r","i","e","n","c","e"," ","w","i","t","h"," ","a"," ","b","u","i","l","t","-",
      "i","n"," ","A","I"," ","h","e","l","p","e","r","."," ","U","s","e"," ","t","h","e"," ",
      "s","i","d","e","b","a","r"," ","t","o"," ","b","r","o","w","s","e"," ","t","o","p","i",
      "c","s"," ","o","r"," ","a","s","k"," ","t","h","e"," ","A","I"," ","a"," ","q","u","e",
      "s","t","i","o","n",".","\n","\n","-"," ","N","a","v","i","g","a","t","e"," ","t","h","r",
      "o","u","g","h"," ","t","o","p","i","c","s","\n","-"," ","U","s","e"," ","t","h","e"," ",
      "s","e","a","r","c","h"," ","t","o"," ","f","i","n","d"," ","c","o","n","t","e","n","t",
      "\n","-"," ","O","p","e","n"," ","t","h","e"," ","c","h","a","t"," ","b","u","b","b","l",
      "e"," ","t","o"," ","a","s","k"," ","a","n","y","t","h","i","n","g"," ","a","b","o","u",
      "t"," ","t","h","e"," ","d","o","c","s","\n">>

\* slug='writing-docs'
Page2Slug ==
    <<"w","r","i","t","i","n","g","-","d","o","c","s">>

\* title='Writing Docs'
Page2Title ==
    <<"W","r","i","t","i","n","g"," ","D","o","c","s">>

\* summary='Structure and style guidelines.'
Page2Summary ==
    <<"S","t","r","u","c","t","u","r","e"," ","a","n","d"," ","s","t","y","l","e"," ","g","u",
      "i","d","e","l","i","n","e","s",".">>

\* content of page 'writing-docs': the adjacent string literals, concatenated
Page2Content ==
    <<"#"," ","W","r","i","t","i","n","g"," ","D","o","c","s","\n","\n","K","e","e","p"," ","c",
      "o","n","t","e","n","t"," ","c","o","n","c","i","s","e",","," ","a","d","d"," ","h","e",
      "a","d","i","n","g","s",","," ","a","n","d"," ","p","r","e","f","e","r"," ","e","x","a",
      "m","p","l","e","s",".","\n","\n","#","#"," ","T","i","p","s","\n","-"," ","O","n","e",
      " ","i","d","e","a"," ","p","e","r"," ","s","e","c","t","i","o","n","\n","-"," ","U","s",
      "e"," ","b","u","l","l","e","t"," ","p","o","i","n","t","s","\n","-"," ","P","r","o","v",
      "i","d","e"," ","c","o","d","e"," ","w","h","e","r","e"," ","h","e","l","p","f","u","l",
      "\n">>

\* slug='faq'
Page3Slug ==
    <<"f","a","q">>

\* title='FAQ'
Page3Title ==
    <<"F","A","Q">>

\* summary='Common questions and answers.'
Page3Summary ==
    <<"C","o","m","m","o","n"," ","q","u","e","s","t","i","o","n","s"," ","a","n","d"," ","a",
      "n","s","w","e","r","s",".">>

\* content of page 'faq': the adjacent string literals, concatenated
Page3Content ==
    <<"#"," ","F","A","Q","\n","\n","*","*","W","h","a","t"," ","i","s"," ","D","o","c","y"," ",
      "A","I","?","*","*","\n","\n","A"," ","f","r","i","e","n","d","l","y"," ","d","o","c","u",
      "m","e","n","t","a","t","i","o","n"," ","e","x","p","e","r","i","e","n","c","e"," ","w",
      "i","t","h"," ","a","n"," ","A","I"," ","h","e","l","p","e","r"," ","t","o"," ","g","u",
      "i","d","e"," ","r","e","a","d","e","r","s",".","\n","\n","*","*","D","o","e","s"," ","i",
      "t"," ","n","e","e","d"," ","a"," ","d","a","t","a","b","a","s","e","?","*","*","\n","\n",
      "F","o","r"," ","s","t","a","t","i","c"," ","d","o","c","s",","," ","n","o","."," ","F",
      "o","r"," ","u","s","e","r"," ","c","o","n","t","e","n","t"," ","o","r"," ","a","n","a",
      "l","y","t","i","c","s",","," ","y","e","s",".","\n">>

(***************************************************************************)
(* The fixed texts of ask_ai's answers.                                    *)
(***************************************************************************)
\* 'Please provide a question.'
PromptText ==
    <<"P","l","e","a","s","e"," ","p","r","o","v","i","d","e"," ","a"," ","q","u","e","s","t",
      "i","o","n",".">>

\* 'Here are some details I found in the documentation that may help:\n\n'
FoundHeader ==
    <<"H","e","r","e"," ","a","r","e"," ","s","o","m","e"," ","d","e","t","a","i","l","s"," ",
      "I"," ","f","o","u","n","d"," ","i","n"," ","t","h","e"," ","d","o","c","u","m","e","n",
      "t","a","t","i","o","n"," ","t","h","a","t"," ","m","a","y"," ","h","e","l","p",":","\n",
      "\n">>

\* '\n\nOpen one of these pages for a deeper dive.'
FoundFooter ==
    <<"\n","\n","O","p","e","n"," ","o","n","e"," ","o","f"," ","t","h","e","s","e"," ","p","a",
      "g","e","s"," ","f","o","r"," ","a"," ","d","e","e","p","e","r"," ","d","i","v","e",".">>

\* "I couldn't find an exact match in the docs. Try rephrasing your question or browse the sections from the sidebar."
FallbackText ==
    <<"I"," ","c","o","u","l","d","n","'","t"," ","f","i","n","d"," ","a","n"," ","e","x","a",
      "c","t"," ","m","a","t","c","h"," ","i","n"," ","t","h","e"," ","d","o","c","s","."," ",
      "T","r","y"," ","r","e","p","h","r","a","s","i","n","g"," ","y","o","u","r"," ","q","u",
      "e","s","t","i","o","n"," ","o","r"," ","b","r","o","w","s","e"," ","t","h","e"," ","s",
      "e","c","t","i","o","n","s"," ","f","r","o","m"," ","t","h","e"," ","s","i","d","e","b",
      "a","r",".">>

\* '- '
TipPrefix ==
    <<"-"," ">>

\* ' (/docs/'
TipMiddle ==
    <<" ","(","/","d","o","c","s","/">>

\* ')'
TipSuffix ==
    <<")">>

\* '/docs/'
DocsPrefix ==
    <<"/","d","o","c","s","/">>

\* Optional[str]: None is the empty tuple, a present value s is <<s>>
None == << >>

Some(s) == <<s>>

\* class DocPage(BaseModel)
DocPage(slug, title, summary, content) ==
    [slug |-> slug, title |-> title, summary |-> summary, content |-> content]

\* DOC_PAGES: List[DocPage] = [...], in definition order
DOC_PAGES ==
    << DocPage(Page1Slug, Page1Title, Some(Page1Summary), Page1Content),
       DocPage(Page2Slug, Page2Title, Some(Page2Summary), Page2Content),
       DocPage(Page3Slug, Page3Title, Some(Page3Summary), Page3Content) >>

(***************************************************************************)
(* Python str operations used by the handlers.                             *)
(***************************************************************************)
\* whitespace as str.strip() and str.split() with no argument see it: the
\* space and the control characters a TLA+ string can hold (the vertical
\* tab and the separators 0x1c-0x1f are treated by Python like these)
Whitespace == {" ", "\t", "\n", "\r", "\f"}

UpperLetters ==
    <<"A","B","C","D","E","F","G","H","I","J","K","L","M",
      "N","O","P","Q","R","S","T","U","V","W","X","Y","Z">>

LowerLetters ==
    <<"a","b","c","d","e","f","g","h","i","j","k","l","m",
      "n","o","p","q","r","s","t","u","v","w","x","y","z">>

\* the case mapping of str.lower() on ASCII letters
LowerOf == [c \in {UpperLetters[i] : i \in 1..26} |->
               LowerLetters[CHOOSE i \in 1..26 : UpperLetters[i] = c]]

LowerChar(c) == IF c \in DOMAIN LowerOf THEN LowerOf[c] ELSE c

\* s.lower()
Lower(s) == [i \in 1..Len(s) |-> LowerChar(s[i])]

\* s[:n]
Take(s, n) == SubSeq(s, 1, IF Len(s) < n THEN Len(s) ELSE n)

RECURSIVE LStrip(_)
\* s.lstrip()
LStrip(s) ==
    IF s # << >> /\ Head(s) \in Whitespace THEN LStrip(Tail(s)) ELSE s

RECURSIVE RStrip(_)
\* s.rstrip()
RStrip(s) ==
    IF s # << >> /\ s[Len(s)] \in Whitespace
    THEN RStrip(SubSeq(s, 1, Len(s) - 1))
    ELSE s

\* s.strip(" "): only the space character is removed
StripSpaces(s) ==
    LET RECURSIVE L(_), R(_)
        L(t) == IF t # << >> /\ Head(t) = " " THEN L(Tail(t)) ELSE t
        R(t) == IF t # << >> /\ t[Len(t)] = " "
                THEN R(SubSeq(t, 1, Len(t) - 1)) ELSE t
    IN R(L(s))

\* s.strip()
Strip(s) == RStrip(LStrip(s))

RECURSIVE SplitFrom(_, _, _)
\* the scan of s.split(): cur is the token being read, s the unread rest
SplitFrom(s, cur, acc) ==
    IF s = << >>
    THEN IF cur = << >> THEN acc ELSE Append(acc, cur)
    ELSE IF Head(s) \in Whitespace
         THEN SplitFrom(Tail(s), << >>,
                        IF cur = << >> THEN acc ELSE Append(acc, cur))
         ELSE SplitFrom(Tail(s), Append(cur, Head(s)), acc)

\* s.split(): the maximal runs of non-whitespace characters, in order
Split(s) == SplitFrom(s, << >>, << >>)

\* k in hay: k occurs in hay as a contiguous substring
Contains(hay, k) ==
    \E i \in 1..(Len(hay) - Len(k) + 1) : SubSeq(hay, i, i + Len(k) - 1) = k

RECURSIVE Join(_, _)
\* sep.join(parts)
Join(sep, parts) ==
    IF parts = << >> THEN << >>
    ELSE IF Len(parts) = 1 THEN parts[1]
    ELSE parts[1] \o sep \o Join(sep, Tail(parts))

RECURSIVE KeepAt(_, _, _)
\* [x for x in s if ...]: the elements of s from index i on whose index is
\* in keep, in the order of s
KeepAt(s, keep, i) ==
    IF i > Len(s) THEN << >>
    ELSE IF i \in keep THEN <<s[i]>> \o KeepAt(s, keep, i + 1)
    ELSE KeepAt(s, keep, i + 1)

(***************************************************************************)
(* Responses.                                                              *)
(***************************************************************************)
NoRequest == [op |-> "none"]

NoResponse == [status |-> 0]

\* a handler's return value, sent with status 200
Ok(body) == [status |-> 200, body |-> body]

\* raise HTTPException(status_code=404, detail="Page not found")
NotFound == [status |-> 404, body |-> [detail |-> "Page not found"]]

\* an exception leaving the handler: the framework answers 500
ServerError(e) == [status |-> 500, body |-> [raised |-> e]]

(***************************************************************************)
(* Page registry handlers.                                                 *)
(***************************************************************************)
\* read_root: return {"message": ...}
ReadRoot == Ok([message |-> "Docy AI Backend is running"])

\* list_pages: return DOC_PAGES
ListPages(pages) == Ok(pages)

RECURSIVE GetPageFrom(_, _, _)
\* the loop of get_page from index i: the first page whose slug is equal
GetPageFrom(pages, slug, i) ==
    IF i > Len(pages) THEN NotFound
    ELSE IF pages[i].slug = slug THEN Ok(pages[i])
    ELSE GetPageFrom(pages, slug, i + 1)

\* the loop started one page late
GetPageSkipFirst(pages, slug) == GetPageFrom(pages, slug, 2)

RECURSIVE GetPageAnyCaseFrom(_, _, _)
GetPageAnyCaseFrom(pages, slug, i) ==
    IF i > Len(pages) THEN NotFound
    ELSE IF Lower(pages[i].slug) = Lower(slug) THEN Ok(pages[i])
    ELSE GetPageAnyCaseFrom(pages, slug, i + 1)

\* the loop comparing p.slug.lower() == slug.lower()
GetPageAnyCase(pages, slug) == GetPageAnyCaseFrom(pages, slug, 1)

\* get_page(slug)
GetPage(pages, slug) == GetPageFrom(pages, slug, 1)

(***************************************************************************)
(* The answer matcher, ask_ai (src/main.py lines 90-119).                  *)
(***************************************************************************)
\* p.summary or ''
OrEmpty(opt) == IF opt = None THEN << >> ELSE opt[1]

\* the haystack without .lower()
HaystackAsWritten(p) ==
    p.title \o <<" ">> \o OrEmpty(p.summary) \o <<" ">> \o p.content

\* hay = f"{p.title} {p.summary or ''} {p.content}".lower()
Haystack(p) ==
    Lower(p.title \o <<" ">> \o OrEmpty(p.summary) \o <<" ">> \o p.content)

\* len(k) >= 3
LongEnoughInclusive(k) == Len(k) >= MinTokenLen

\* len(k) > 3
LongEnough(k) == Len(k) > MinTokenLen

\* [k for k in q.split() if len(k) > 3]
Keywords(q) ==
    LET tokens == Split(q)
    IN KeepAt(tokens, {i \in 1..Len(tokens) : LongEnough(tokens[i])}, 1)

\* any(k in hay for k in q.split() if len(k) > 3)
KeywordHit(p, q) ==
    LET hay == Haystack(p)
        ks == Keywords(q)
    IN \E i \in 1..Len(ks) : Contains(hay, ks[i])

\* the loop over DOC_PAGES appending every hit to matches
Matches(pages, q) ==
    KeepAt(pages, {i \in 1..Len(pages) : KeywordHit(pages[i], q)}, 1)

\* matches[:2]
TopMatchesShort(matches) == Take(matches, MaxSources - 1)

\* matches[:3]
TopMatches(matches) == Take(matches, MaxSources)

\* f"- {m.title} (/docs/{m.slug})"
TipLine(m) == TipPrefix \o m.title \o TipMiddle \o m.slug \o TipSuffix

\* f"/docs/{m.slug}"
SourcePath(m) == DocsPrefix \o m.slug

\* AskResponse(answer=..., sources=...): sources defaults to []
AskResponse(answer, sources) == [answer |-> answer, sources |-> sources]

\* q = req.question.strip().lower()
Normalize(question) == Lower(Strip(question))

\* the response built from a non-empty matches list
FoundResponse(matches) ==
    LET top == TopMatches(matches)
        tips == Join(<<"\n">>, [i \in 1..Len(top) |-> TipLine(top[i])])
    IN AskResponse(FoundHeader \o tips \o FoundFooter,
                   [i \in 1..Len(top) |-> SourcePath(top[i])])

\* ask_ai(req)
AskAi(pages, question) ==
    LET q == Normalize(question)
    IN IF q = << >>
       THEN Ok(AskResponse(PromptText, << >>))
       ELSE LET matches == Matches(pages, q)
            IN IF matches # << >>
               THEN Ok(FoundResponse(matches))
               ELSE Ok(AskResponse(FallbackText, << >>))

\* the pages whose haystack ask_ai builds: none on the early return
PagesScanned(pages, question) ==
    IF Normalize(question) = << >> THEN 0 ELSE Len(pages)

\* the slugs of the matches list when ask_ai returns
MatchedSlugs(pages, question) ==
    LET q == Normalize(question)
        m == IF q = << >> THEN << >> ELSE Matches(pages, q)
    IN [i \in 1..Len(m) |-> m[i].slug]

(***************************************************************************)
(* The diagnostic probe, test_database (src/main.py lines 122-156).        *)
(* The emoji that start the report's strings are left out: TLA+ strings    *)
(* are ASCII.                                                              *)
(***************************************************************************)
\* the exception classes the probe tells apart, each with its base class
BaseClass ==
    [ModuleNotFoundError |-> "ImportError", ImportError |-> "Exception",
     AttributeError |-> "Exception", RuntimeError |-> "Exception",
     Exception |-> "BaseException", BaseException |-> "BaseException"]

RECURSIVE IsInstance(_, _)
\* isinstance(e, cls), which decides whether "except cls" catches e
IsInstance(c, cls) ==
    IF c = cls THEN TRUE
    ELSE IF c = "BaseException" THEN FALSE
    ELSE IsInstance(BaseClass[c], cls)

\* a string of the report: a fixed text followed by an interpolated part
Text(fixed, detail) == [fixed |-> fixed, detail |-> detail]

\* response = {...}
InitialReport ==
    [backend |-> "Running",
     database |-> Text("Not Available", << >>),
     database_url |-> "None",
     database_name |-> "None",
     connection_status |-> "Not Connected",
     collections |-> << >>]

\* str(e), not cut
InnerErrTextWhole(e) == e.msg

\* str(e)[:50] of the inner except clause
InnerErrText(e) == Take(e.msg, MaxErrLen)

\* str(e)[:50] of the outer except clause
OuterErrText(e) == Take(e.msg, MaxErrLen)

\* the inner try: db.list_collection_names() and its except Exception
ListCollections(db, r) ==
    IF db.list.kind = "raise"
    THEN IF IsInstance(db.list.exc.cls, "Exception")
         THEN [report |-> [r EXCEPT !.database =
                              Text("Connected but Error: ", InnerErrText(db.list.exc))],
               raised |-> None]
         ELSE [report |-> r, raised |-> Some(db.list.exc)]
    ELSE [report |-> [r EXCEPT !.collections = Take(db.list.value, MaxCollections),
                               !.database = Text("Connected & Working", << >>)],
          raised |-> None]

\* the body of the outer try: the report so far, and the exception leaving it
TryBody(db, r) ==
    IF db.import = "raise"
    THEN [report |-> r, raised |-> Some(db.exc)]
    ELSE IF db.import = "none"
    THEN [report |-> [r EXCEPT !.database =
                         Text("Available but not initialized", << >>)],
          raised |-> None]
    ELSE LET r1 == [r EXCEPT !.database = Text("Available", << >>),
                             !.database_url = "Configured"]
         IN IF db.name.kind = "raise"
               /\ ~IsInstance(db.name.exc.cls, "AttributeError")
            THEN [report |-> r1, raised |-> Some(db.name.exc)]
            ELSE LET r2 == [r1 EXCEPT
                               !.database_name =
                                   IF db.name.kind = "raise" THEN "Connected"
                                   ELSE db.name.value,
                               !.connection_status = "Connected"]
                 IN ListCollections(db, r2)

\* the outer try with its except ImportError clause alone
OuterExceptImportOnly(t) ==
    IF t.raised = None THEN t
    ELSE IF IsInstance(t.raised[1].cls, "ImportError")
    THEN [report |-> [t.report EXCEPT !.database =
             Text("Database module not found (run enable-database first)",
                  << >>)],
          raised |-> None]
    ELSE t

\* the outer except clauses: except ImportError, then except Exception
OuterExcept(t) ==
    IF t.raised = None THEN t
    ELSE LET e == t.raised[1]
         IN IF IsInstance(e.cls, "ImportError")
            THEN [report |-> [t.report EXCEPT !.database =
                     Text("Database module not found (run enable-database first)",
                          << >>)],
                  raised |-> None]
            ELSE IF IsInstance(e.cls, "Exception")
            THEN [report |-> [t.report EXCEPT !.database =
                                 Text("Error: ", OuterErrText(e))],
                  raised |-> None]
            ELSE t

\* os.getenv(name) is truthy: the variable is set, and not to ""
Truthy(opt) == opt # None /\ opt[1] # << >>

\* "Set" if os.getenv(...) else "Not Set"
EnvFlag(opt) == IF Truthy(opt) THEN "Set" ELSE "Not Set"

\* test_database() filling database_url and database_name from the
\* environment only where the try block left them None
TestDatabaseKeepAssigned(db, env) ==
    LET t == OuterExcept(TryBody(db, InitialReport))
        Fill(old, opt) == IF old = "None" THEN EnvFlag(opt) ELSE old
    IN IF t.raised # None
       THEN ServerError(t.raised[1])
       ELSE Ok([t.report EXCEPT
                   !.database_url = Fill(t.report.database_url, env.DATABASE_URL),
                   !.database_name = Fill(t.report.database_name, env.DATABASE_NAME)])

\* test_database()
TestDatabase(db, env) ==
    LET t == OuterExcept(TryBody(db, InitialReport))
    IN IF t.raised # None
       THEN ServerError(t.raised[1])
       ELSE Ok([t.report EXCEPT !.database_url = EnvFlag(env.DATABASE_URL),
                                !.database_name = EnvFlag(env.DATABASE_NAME)])

(***************************************************************************)
(* Inputs of the handlers.                                                 *)
(***************************************************************************)
\* every sequence over S of length at most n
SeqsUpTo(S, n) == UNION {[1..k -> S] : k \in 0..n}

\* s.upper() on ASCII letters
Upper(s) ==
    [i \in 1..Len(s) |->
        IF \E j \in 1..26 : LowerLetters[j] = s[i]
        THEN UpperLetters[CHOOSE j \in 1..26 : LowerLetters[j] = s[i]]
        ELSE s[i]]

\* s.capitalize() of a lowercase slug: the first letter in upper case
Capitalize(s) == IF s = << >> THEN s ELSE Upper(<<Head(s)>>) \o Tail(s)

\* the slugs asked of get_page: every defined slug, its variants in letter
\* case, with a character less and a character more, the empty slug and
\* the page titles
SlugInputs ==
    LET defined == {DOC_PAGES[i].slug : i \in 1..Len(DOC_PAGES)}
    IN defined
       \cup {Upper(s) : s \in defined}
       \cup {Capitalize(s) : s \in defined}
       \cup {SubSeq(s, 1, Len(s) - 1) : s \in defined}
       \cup {s \o <<"s">> : s \in defined}
       \cup {DOC_PAGES[i].title : i \in 1..Len(DOC_PAGES)}
       \cup {<< >>}

\* the characters of the enumerated questions: a separator, an upper-case
\* letter and the letters of "docs", a word of every page
QuestionAlphabet == {" ", "D", "o", "c", "s"}

\* questions written out: the examples of the documentation and words of
\* single pages, with other whitespace and other letter case
NamedQuestions == {
    <<"g","e","t","t","i","n","g"," ","s","t","a","r","t","e","d">>,
    <<"x","y","z","x","y","z">>,
    <<"f","a","q">>,
    <<"F","A","Q">>,
    <<" "," "," ">>,
    <<"\n","\t"," ">>,
    <<"q","u","e","s","t","i","o","n">>,
    <<"w","r","i","t","i","n","g">>,
    <<"h","e","l","p","e","r">>,
    <<"w","h","a","t"," ","i","s"," ","d","o","c","s">>,
    <<"a"," ","d","o","c","s"," ","b">>,
    <<" "," ","G","e","t","t","i","n","g"," "," ">>,
    <<"d","o","c","s","s","t","r","u","c","t","u","r","e">>,
    <<"s","t","a","r","t","e","d","q","u","i","c","k">>,
    <<"h","o","w"," ","t","o","\t","w","r","i","t","e","\n","d","o","c","s">>,
    <<"i","s"," ","i","t"," ","o","k">>
    }

Questions == SeqsUpTo(QuestionAlphabet, MaxQLen) \cup NamedQuestions

\* an error message of n characters, each position with its own character
Msg(n) == [i \in 1..n |-> LowerLetters[((i - 1) % 26) + 1]]

\* the lengths of the messages: none, one, and around the cut of str(e)[:50]
MsgLens == {0, 1} \cup ((MaxErrLen - 1)..MaxMsgLen)

\* the errors the database dependency raises, all of class Exception
DbErrors ==
    [cls : {"ModuleNotFoundError", "ImportError", "AttributeError", "RuntimeError"},
     msg : {Msg(n) : n \in MsgLens}]

\* the outcomes of getattr's read of db.name
NameOutcomes ==
    {[kind |-> "value", value |-> "appdb"]}
    \cup {[kind |-> "raise", exc |-> e] : e \in DbErrors}

\* the outcomes of db.list_collection_names()
ListOutcomes ==
    {[kind |-> "value", value |-> [i \in 1..n |-> i]] :
        n \in {0, 1} \cup ((MaxCollections - 1)..MaxColl)}
    \cup {[kind |-> "raise", exc |-> e] : e \in DbErrors}

\* what "from database import db" and the handle do: the import raises (the
\* module is absent, or its code fails), db is None, or db is a handle
DbBehaviours ==
    {[import |-> "raise", exc |-> e] : e \in DbErrors}
    \cup {[import |-> "none"]}
    \cup {[import |-> "handle", name |-> n, list |-> l] :
             n \in NameOutcomes, l \in ListOutcomes}

\* an environment variable: unset, set to "", set to a value
EnvValues == {None, Some(<< >>), Some(<<"x">>)}

Environments == [DATABASE_URL : EnvValues, DATABASE_NAME : EnvValues]

(***************************************************************************)
(* The state machine: one request is served at a time; a handler runs as   *)
(* one step from the request to its response, and Reply hands the response *)
(* to the client.  scanned and matched record, for the last ask_ai call,   *)
(* how many haystacks it built and the slugs of its matches list.          *)
(***************************************************************************)
TypeOK ==
    /\ request.op \in {"none", "read_root", "list_pages", "get_page", "ask", "test"}
    /\ response.status \in {0, 200, 404, 500}
    /\ scanned \in 0..Len(registry)

Init ==
    /\ registry = DOC_PAGES
    /\ request = NoRequest
    /\ response = NoResponse
    /\ scanned = 0
    /\ matched = << >>

read_root ==
    /\ request = NoRequest
    /\ request' = [op |-> "read_root"]
    /\ response' = ReadRoot
    /\ UNCHANGED <<registry, scanned, matched>>

list_pages ==
    /\ request = NoRequest
    /\ request' = [op |-> "list_pages"]
    /\ response' = ListPages(registry)
    /\ UNCHANGED <<registry, scanned, matched>>

get_page ==
    /\ request = NoRequest
    /\ \E slug \in SlugInputs :
          /\ request' = [op |-> "get_page", slug |-> slug]
          /\ response' = GetPage(registry, slug)
    /\ UNCHANGED <<registry, scanned, matched>>

\* ask_ai ranking the registry in place: the pages that match come first
ask_ai_ranking ==
    /\ request = NoRequest
    /\ \E question \in Questions :
          LET hit == Matches(registry, Normalize(question))
              miss == {n \in 1..Len(registry) :
                          \A i \in 1..Len(hit) : hit[i] # registry[n]}
          IN /\ request' = [op |-> "ask", question |-> question]
             /\ response' = AskAi(registry, question)
             /\ scanned' = PagesScanned(registry, question)
             /\ matched' = MatchedSlugs(registry, question)
             /\ registry' = hit \o KeepAt(registry, miss, 1)

ask_ai ==
    /\ request = NoRequest
    /\ \E question \in Questions :
          /\ request' = [op |-> "ask", question |-> question]
          /\ response' = AskAi(registry, question)
          /\ scanned' = PagesScanned(registry, question)
          /\ matched' = MatchedSlugs(registry, question)
    /\ UNCHANGED registry

test_database ==
    /\ request = NoRequest
    /\ \E db \in DbBehaviours, env \in Environments :
          /\ request' = [op |-> "test", db |-> db, env |-> env]
          /\ response' = TestDatabase(db, env)
    /\ UNCHANGED <<registry, scanned, matched>>

\* the framework sends the response; the next request can be served
Reply ==
    /\ request # NoRequest
    /\ request' = NoRequest
    /\ response' = NoResponse
    /\ scanned' = 0
    /\ matched' = << >>
    /\ UNCHANGED registry

Next ==
    \/ read_root
    \/ list_pages
    \/ get_page
    \/ ask_ai
    \/ test_database
    \/ Reply

Spec == Init /\ [][Next]_vars

(***************************************************************************)
(* Notions the properties below are stated with.  They are written from    *)
(* the wording of the documentation, not with the handlers' operators.     *)
(***************************************************************************)
\* s is empty once leading and trailing whitespace is trimmed
BlankText(s) == \A i \in 1..Len(s) : s[i] \in Whitespace

\* s[i..j] is a whitespace-delimited token of s
IsToken(s, i, j) ==
    /\ 1 <= i /\ i <= j /\ j <= Len(s)
    /\ \A k \in i..j : s[k] \notin Whitespace
    /\ (i = 1 \/ s[i - 1] \in Whitespace)
    /\ (j = Len(s) \/ s[j + 1] \in Whitespace)

\* s[i..j] occurs in hay as a literal substring
OccursIn(hay, s, i, j) ==
    \E o \in 0..(Len(hay) - (j - i + 1)) :
        \A k \in 0..(j - i) : hay[o + 1 + k] = s[i + k]

\* title, summary and content put end to end, lowercased
JoinedText(p) == Lower(p.title \o OrEmpty(p.summary) \o p.content)

\* title, summary and content with one space between them, lowercased
SpacedText(p) ==
    Lower(p.title \o <<" ">> \o OrEmpty(p.summary) \o <<" ">> \o p.content)

\* some token of the lowercased question, longer than 3, occurs in hay
TokenFound(hay, question) ==
    LET q == Lower(question)
    IN \E i \in 1..Len(q) : \E j \in (i + 3)..Len(q) :
          IsToken(q, i, j) /\ OccursIn(hay, q, i, j)

\* the pages of the registry, in its order, that TokenFound makes a match
ExpectedMatches(question) ==
    KeepAt(DOC_PAGES,
           {n \in 1..Len(DOC_PAGES) : TokenFound(SpacedText(DOC_PAGES[n]), question)},
           1)

\* the slug is the slug of some page of ask_ai's matches list
InMatched(slug) == \E m \in 1..Len(matched) : matched[m] = slug

\* d is the first 50 characters of m, or all of m when it is shorter
IsCut(d, m) ==
    /\ Len(d) = (IF Len(m) < 50 THEN Len(m) ELSE 50)
    /\ \A i \in 1..Len(d) : d[i] = m[i]

\* the environment variable is set
IsSet(opt) == opt # None

\* the environment variable is set to a non-empty value
IsSetNonEmpty(opt) == opt # None /\ Len(opt[1]) > 0

AsFlag(b) == IF b THEN "Set" ELSE "Not Set"

(***************************************************************************)
(* Properties.                                                             *)
(***************************************************************************)
\* C1: get_page called with the slug of a defined page returns exactly that
\* page, slug, title, summary and content unchanged; the slugs of the
\* registry are pairwise different, so the first hit is the only one.
GetPageRoundTrip ==
    /\ \A i, j \in 1..Len(registry) :
          registry[i].slug = registry[j].slug => i = j
    /\ \A i \in 1..Len(DOC_PAGES) :
          (request.op = "get_page" /\ request.slug = DOC_PAGES[i].slug)
             => response = [status |-> 200, body |-> DOC_PAGES[i]]

GetPageRoundTripWitness ==
    /\ request.op = "get_page"
    /\ request.slug = Page1Slug
    /\ response.status = 200
    /\ response.body.content = Page1Content

\* C2: get_page called with a slug that is not exactly the slug of a defined
\* page, letter case included, answers 404 "Page not found" and no page.
GetPageNotFound ==
    (/\ request.op = "get_page"
     /\ \A i \in 1..Len(DOC_PAGES) : DOC_PAGES[i].slug # request.slug)
        => /\ response.status = 404
           /\ response.body = [detail |-> "Page not found"]

GetPageNotFoundWitness ==
    /\ request.op = "get_page"
    /\ request.slug = <<"F", "A", "Q">>
    /\ response.status = 404

BlankQuestionPrompt ==
    (request.op = "ask" /\ BlankText(request.question))
        => /\ response = [status |-> 200,
                          body |-> [answer |-> PromptText, sources |-> << >>]]
           /\ scanned = 0

BlankQuestionPromptWitness ==
    /\ request.op = "ask"
    /\ request.question = <<"\n", "\t", " ">>
    /\ response.body.answer = PromptText

\* C5 as stated: for a question not blank, a page is in matches exactly when
\* a token of the lowercased question longer than 3 occurs in the lowercased
\* concatenation of its title, summary and content.
MatchIffTokenInJoinedText ==
    (request.op = "ask" /\ ~BlankText(request.question))
        => \A n \in 1..Len(DOC_PAGES) :
              InMatched(DOC_PAGES[n].slug)
                 <=> TokenFound(JoinedText(DOC_PAGES[n]), request.question)

\* C5 as amended: the same, with title, summary and content joined by single
\* spaces, so that no token is found across the end of one and the start of
\* the next; tokens of 3 characters or fewer never make a match.
MatchIffTokenInSpacedText ==
    (request.op = "ask" /\ ~BlankText(request.question))
        => \A n \in 1..Len(DOC_PAGES) :
              InMatched(DOC_PAGES[n].slug)
                 <=> TokenFound(SpacedText(DOC_PAGES[n]), request.question)

MatchIffTokenInSpacedTextWitness ==
    /\ request.op = "ask"
    /\ request.question = <<"q","u","e","s","t","i","o","n">>
    /\ matched = <<Page1Slug, Page3Slug>>

\* C6: when a page matches, sources is the "/docs/<slug>" paths of the first
\* min(3, number of matches) matching pages in registry order, at most 3 and
\* without duplicates, and the answer lists "- <title> (/docs/<slug>)" for
\* the same pages in the same order.
SourcesAreFirstMatches ==
    LET exp == ExpectedMatches(request.question)
        n == IF Len(exp) < 3 THEN Len(exp) ELSE 3
        src == response.body.sources
        line(i) == TipPrefix \o exp[i].title \o TipMiddle \o exp[i].slug \o TipSuffix
    IN (request.op = "ask" /\ ~BlankText(request.question) /\ exp # << >>)
          => /\ response.status = 200
             /\ Len(src) = n
             /\ Len(src) <= 3
             /\ \A i \in 1..n : src[i] = DocsPrefix \o exp[i].slug
             /\ \A i, j \in 1..Len(src) : src[i] = src[j] => i = j
             /\ response.body.answer =
                   FoundHeader \o Join(<<"\n">>, [i \in 1..n |-> line(i)])
                               \o FoundFooter

SourcesAreFirstMatchesWitness ==
    /\ request.op = "ask"
    /\ request.question = <<"D", "o", "c", "s">>
    /\ Len(response.body.sources) = 3
    /\ response.body.sources[2] = DocsPrefix \o Page2Slug

\* C7: ask_ai never signals an error: every question is answered with status
\* 200, and a question that is not blank and matches no page (so every
\* question whose tokens all have 3 characters or fewer) gets the fixed
\* fallback answer with no sources.
AskNeverFails ==
    request.op = "ask"
        => /\ response.status = 200
           /\ (/\ ~BlankText(request.question)
               /\ ExpectedMatches(request.question) = << >>)
                 => response.body = [answer |-> FallbackText, sources |-> << >>]

AskNeverFailsWitness ==
    /\ request.op = "ask"
    /\ request.question = <<"f", "a", "q">>
    /\ response.status = 200
    /\ response.body.answer = FallbackText

\* C8: the probe never lets an error of the database dependency reach its
\* caller: it answers 200 with a report whether the import raises, db is
\* None, reading db.name raises or listing the collections raises; with the
\* module absent the report says the database module was not found, is "Not
\* Connected" and lists no collection.
ProbeAlwaysReports ==
    request.op = "test"
        => /\ response.status = 200
           /\ (/\ request.db.import = "raise"
               /\ request.db.exc.cls = "ModuleNotFoundError")
                 => /\ response.body.database =
                         [fixed |-> "Database module not found (run enable-database first)",
                          detail |-> << >>]
                    /\ response.body.connection_status = "Not Connected"
                    /\ response.body.collections = << >>

ProbeAlwaysReportsWitness ==
    /\ request.op = "test"
    /\ request.db.import = "handle"
    /\ request.db.name.kind = "raise"
    /\ request.db.name.exc.cls = "RuntimeError"
    /\ response.status = 200
    /\ response.body.database.fixed = "Error: "

\* C9: the text of a dependency error in the report is the error's message
\* cut to at most 50 characters, whatever its length, both when listing the
\* collections failed and on any other failure.
ErrorTextCut ==
    (request.op = "test" /\ response.status = 200)
        => LET db == request.db
               d == response.body.database
           IN /\ Len(d.detail) <= 50
              /\ d.fixed = "Connected but Error: " => IsCut(d.detail, db.list.exc.msg)
              /\ d.fixed = "Error: "
                    => IsCut(d.detail, IF db.import = "raise" THEN db.exc.msg
                                       ELSE db.name.exc.msg)

ErrorTextCutWitness ==
    /\ request.op = "test"
    /\ response.status = 200
    /\ response.body.database.fixed = "Connected but Error: "
    /\ Len(request.db.list.exc.msg) = 51
    /\ Len(response.body.database.detail) = 50

\* C10 as stated: in every report database_url and database_name say whether
\* DATABASE_URL and DATABASE_NAME are set, "Set" or "Not Set", whatever the
\* database did; "Configured" and the handle's name never appear.
EnvFieldsSayWhetherSet ==
    (request.op = "test" /\ response.status = 200)
        => /\ response.body.database_url = AsFlag(IsSet(request.env.DATABASE_URL))
           /\ response.body.database_name = AsFlag(IsSet(request.env.DATABASE_NAME))

\* C10 as amended: the two fields say whether the variable is set to a
\* non-empty value (a variable set to "" reads "Not Set"), whatever the
\* database did; "Configured" and the handle's name never appear.
EnvFieldsSayWhetherNonEmpty ==
    (request.op = "test" /\ response.status = 200)
        => /\ response.body.database_url
                 = AsFlag(IsSetNonEmpty(request.env.DATABASE_URL))
           /\ response.body.database_name
                 = AsFlag(IsSetNonEmpty(request.env.DATABASE_NAME))
           /\ response.body.database_url # "Configured"
           /\ response.body.database_name \notin {"appdb", "Connected"}

EnvFieldsSayWhetherNonEmptyWitness ==
    /\ request.op = "test"
    /\ request.db.import = "handle"
    /\ request.db.name.kind = "value"
    /\ response.status = 200
    /\ response.body.database.fixed = "Connected & Working"
    /\ request.env.DATABASE_URL = None
    /\ request.env.DATABASE_NAME = Some(<<"x">>)
    /\ response.body.database_url = "Not Set"
    /\ response.body.database_name = "Set"

====
